---- MODULE Spec2Model ----
(***************************************************************************)
(* babel-auto-break: a Babel plugin that puts a wall-clock watchdog into   *)
(* every for / while / do-while loop (src/src/babel-auto-break.ts).        *)
(*                                                                         *)
(* The module models three things:                                         *)
(*   - the plugin's construction, where transformOnBreak turns the         *)
(*     onBreak option into the callback expression (SpecOnBreak);          *)
(*   - the traversal, where breakAfter rewrites each loop (SpecPass);      *)
(*   - the execution of the rewritten program against a clock (Spec,       *)
(*     and SpecLive with the fairness of a running engine and clock).      *)
(***************************************************************************)
EXTENDS Integers, Sequences, FiniteSets, TLC

VARIABLES
    node,        \* the statements of the input program, by number (pre-order)
    prog,        \* Program.body: the top-level statement list
    body,        \* per loop: its body, [block, stmts]
    timeout,     \* options.timeout
    onBreak,     \* options.onBreak
    onAutoBreak, \* the callback expression transformOnBreak built
    thrown,      \* what the plugin's construction threw, "" for nothing
    visited,     \* the loops the traversal has handed to breakAfter
    uids,        \* the names generateUidIdentifier has minted (program.uids)
    pc,          \* execution: the stack of positions, one frame per active list
    since,       \* execution: per timer name, Date.now() - <name>
    sinceEntry,  \* history: per loop, the time since control last arrived at it
    fired,       \* history: per loop, the callback calls of its current execution
    unwinding,   \* history: the loops inside which a guard fired in their current execution
    lastEval,    \* history: the guard evaluation of the step just taken, if it was one
    lastExit     \* history: the loop exit of the step just taken, if it was one

vars == <<node, prog, body, timeout, onBreak, onAutoBreak, thrown, visited, uids,
          pc, since, sinceEntry, fired, unwinding, lastEval, lastExit>>

treeVars == <<prog, body>>
passVars == <<visited, uids>>
runVars  == <<pc, since, sinceEntry, fired, unwinding, lastEval, lastExit>>
optVars  == <<timeout, onBreak, onAutoBreak, thrown>>

(***************************************************************************)
(* Bounds                                                                  *)
(***************************************************************************)
MaxNodes == 3        \* statements of an input program
MaxTimeout == 1      \* options.timeout, in clock ticks
MaxMessage == 3      \* characters of an onBreak message

LoopTypes == {"ForStatement", "WhileStatement", "DoWhileStatement"}

IsLoop(i) == node[i].type \in LoopTypes
Loops == {i \in DOMAIN node : IsLoop(i)}

(***************************************************************************)
(* Statements of a statement list.  A statement of the input program is a  *)
(* reference to its node; the two statements the plugin builds are values. *)
(***************************************************************************)
Ref(i) == [type |-> "Node", n |-> i]
IsLoopRef(s) == s.type = "Node" /\ IsLoop(s.n)

(***************************************************************************)
(* transformOnBreak (lines 62-81).  A message is a sequence of characters  *)
(* over Alphabet; the source of a callable is a sequence of tokens.        *)
(***************************************************************************)
Quote == "\""
Backslash == "\\"
Alphabet == {"a", Quote, Backslash, ")", ",", "/"}

\* line 66: String(onBreak).replace(/"/g, '\\"'), a backslash before every double quote
RECURSIVE EscapeQuotes(_)
EscapeQuotes(text) ==
    IF text = <<>> THEN <<>>
    ELSE (IF Head(text) = Quote THEN <<Backslash, Quote>> ELSE <<Head(text)>>)
         \o EscapeQuotes(Tail(text))

\* line 66: `() => console.error("${...}")`; the text before the message is one item
MessageSource(text) ==
    <<"() => console.error(", Quote>> \o EscapeQuotes(text) \o <<Quote, ")">>

\* line 65: onBreak.toString().replace(/^function\s*\(/, 'function $onAutoBreak$(')
CallableSource(tokens) ==
    IF Len(tokens) >= 2 /\ tokens[1] = "function" /\ tokens[2] = "("
    THEN <<"function", "$onAutoBreak$">> \o Tail(tokens)
    ELSE tokens

\* line 64-66
onAutoBreakCode(ob) ==
    IF ob.typeof = "function" THEN CallableSource(ob.source) ELSE MessageSource(ob.text)

(***************************************************************************)
(* The host's parser (transform, line 68) on these sources: the first      *)
(* statement of the program, or a syntax error.                            *)
(*                                                                         *)
(* A message source is read character by character from the opening quote *)
(* of the argument of console.error.  The states of the reader:            *)
(*   first   inside the first string literal, whose value is collected     *)
(*   string  inside a later string literal                                 *)
(*   regex   inside a regular expression literal                           *)
(*   expect  an operand is expected                                        *)
(*   after   an operand has ended (kind: an identifier that a letter may   *)
(*           continue, or a literal or call that it may not)               *)
(* at level "arg" (inside the argument list of console.error) or "top"     *)
(* (behind its closing parenthesis).  A backslash inside a literal takes   *)
(* the next character with it; outside it is no token.  // starts a        *)
(* comment that runs to the end.  A comma at the top level makes the       *)
(* statement a sequence expression, whose first element is the arrow.      *)
(***************************************************************************)
SyntaxError == [type |-> "SyntaxError"]

RECURSIVE Read(_, _, _)
Read(src, i, st) ==
    IF i > Len(src)
    THEN \* the end of the source
         IF st.mode = "after" /\ st.level = "top" THEN st ELSE [st EXCEPT !.ok = FALSE]
    ELSE
    LET c == src[i]
        bad == [st EXCEPT !.ok = FALSE]
        comment == i < Len(src) /\ src[i + 1] = "/"
    IN  IF st.mode = "first" THEN
            IF c = Backslash THEN
                IF i = Len(src) THEN bad
                ELSE Read(src, i + 2, [st EXCEPT !.value = @ \o <<src[i + 1]>>])
            ELSE IF c = Quote THEN
                Read(src, i + 1, [st EXCEPT !.mode = "after", !.kind = "literal"])
            ELSE Read(src, i + 1, [st EXCEPT !.value = @ \o <<c>>])
        ELSE IF st.mode = "string" THEN
            IF c = Backslash THEN (IF i = Len(src) THEN bad ELSE Read(src, i + 2, st))
            ELSE IF c = Quote THEN
                Read(src, i + 1, [st EXCEPT !.mode = "after", !.kind = "literal"])
            ELSE Read(src, i + 1, st)
        ELSE IF st.mode = "regex" THEN
            IF c = Backslash THEN (IF i = Len(src) THEN bad ELSE Read(src, i + 2, st))
            ELSE IF c = "/" THEN
                Read(src, i + 1, [st EXCEPT !.mode = "after", !.kind = "literal"])
            ELSE Read(src, i + 1, st)
        ELSE IF st.mode = "expect" THEN
            IF c = "a" THEN Read(src, i + 1, [st EXCEPT !.mode = "after", !.kind = "identifier"])
            ELSE IF c = Quote THEN Read(src, i + 1, [st EXCEPT !.mode = "string"])
            ELSE IF c = ")" /\ st.level = "arg" /\ st.trailing THEN
                Read(src, i + 1, [st EXCEPT !.mode = "after", !.kind = "literal",
                                            !.level = "top"])
            ELSE IF c = "/" /\ ~comment THEN Read(src, i + 1, [st EXCEPT !.mode = "regex"])
            ELSE bad
        ELSE \* st.mode = "after"
            IF c = "a" /\ st.kind = "identifier" THEN Read(src, i + 1, st)
            ELSE IF c = ")" /\ st.level = "arg" THEN
                Read(src, i + 1, [st EXCEPT !.kind = "literal", !.level = "top"])
            ELSE IF c = "," THEN
                Read(src, i + 1,
                     IF st.level = "arg"
                     THEN [st EXCEPT !.mode = "expect", !.trailing = TRUE, !.plain = FALSE]
                     ELSE [st EXCEPT !.mode = "expect", !.trailing = FALSE,
                                     !.sequence = TRUE])
            ELSE IF c = "/" /\ comment THEN
                IF st.level = "top" THEN st ELSE bad
            ELSE IF c = "/" THEN
                Read(src, i + 1,
                     [st EXCEPT !.mode = "expect", !.trailing = FALSE,
                                !.plain = IF st.level = "arg" THEN FALSE ELSE @])
            ELSE bad

ParseMessageSource(src) ==
    LET end == Read(src, 3, [ok |-> TRUE, mode |-> "first", level |-> "arg",
                             kind |-> "literal", trailing |-> FALSE, value |-> <<>>,
                             plain |-> TRUE, sequence |-> FALSE])
        arrow == [type |-> "ArrowFunctionExpression", params |-> "",
                  body |-> [callee |-> "console.error",
                            arguments |-> IF end.plain THEN <<end.value>>
                                          ELSE <<end.value, "...">>]]
    IN  IF ~end.ok THEN SyntaxError
        ELSE IF end.sequence
        THEN [type |-> "ExpressionStatement",
              expression |-> [type |-> "SequenceExpression", first |-> arrow]]
        ELSE [type |-> "ExpressionStatement", expression |-> arrow]

\* A function declaration needs a name; a class is a declaration of its own kind.
ParseCallableSource(tokens) ==
    IF tokens[1] = "(" THEN
        [type |-> "ExpressionStatement",
         expression |-> [type |-> "ArrowFunctionExpression", params |-> tokens[2],
                         body |-> tokens[5]]]
    ELSE IF tokens[1] = "function" /\ tokens[2] # "(" THEN
        [type |-> "FunctionDeclaration", id |-> tokens[2], params |-> tokens[4],
         body |-> tokens[6]]
    ELSE IF tokens[1] = "class" THEN
        [type |-> "ClassDeclaration", id |-> tokens[2], body |-> tokens[3]]
    ELSE SyntaxError

\* line 68: transform(onAutoBreakCode, { ast: true })?.ast?.program.body[0]
Transform(ob) ==
    IF ob.typeof = "function" THEN ParseCallableSource(onAutoBreakCode(ob))
    ELSE ParseMessageSource(onAutoBreakCode(ob))

Nothing == [type |-> "undefined"]

\* lines 62-81: transformOnBreak; a syntax error of the parser is thrown through
transformOnBreak(ob) ==
    LET stmt == Transform(ob)
    IN  IF stmt.type = "SyntaxError"
        THEN [thrown |-> "SyntaxError", value |-> Nothing]
        ELSE IF stmt.type = "ExpressionStatement"
        THEN [thrown |-> "", value |-> stmt.expression]
        ELSE IF stmt.type = "FunctionDeclaration"
        THEN [thrown |-> "",
              value |-> [type |-> "FunctionExpression", id |-> stmt.id,
                         params |-> stmt.params, body |-> stmt.body]]
        ELSE [thrown |-> "babel-babel-auto-break: invalid onBreak action",
              value |-> Nothing]

Message(text) == [typeof |-> "string", text |-> text]
Callable(tokens) == [typeof |-> "function", source |-> tokens]

\* line 83: const noop = function (): void { }
noop == Callable(<<"function", "(", "", ")", "{ }">>)

\* line 28: const onAutoBreak = transformOnBreak({ t, transform, onBreak }), before the
\* visitor is returned; the plugin exists only if nothing was thrown.
Construct ==
    /\ onAutoBreak = Nothing /\ thrown = ""
    /\ LET made == transformOnBreak(onBreak)
       IN  /\ thrown' = made.thrown
           /\ onAutoBreak' = IF made.thrown = "" THEN made.value
                             ELSE [type |-> "no plugin"]
    /\ UNCHANGED <<node, treeVars, passVars, runVars, timeout, onBreak>>

(***************************************************************************)
(* The statements the plugin builds                                        *)
(***************************************************************************)

\* line 90: generateInitialization, `var <id> = Date.now()`
generateInitialization(id) ==
    [type |-> "VariableDeclaration", kind |-> "var", id |-> id,
     init |-> [type |-> "CallExpression", callee |-> "Date.now"]]

\* Variants of generateLoopGuard: the comparison not strict; the exit left out;
\* a threshold of its own per loop.
generateLoopGuardNotStrict(id, line, column, tmo, cb) ==
    [type |-> "IfStatement",
     test |-> [operator |-> ">=",
               left |-> [operator |-> "-",
                         left |-> [type |-> "CallExpression", callee |-> "Date.now"],
                         right |-> id],
               right |-> tmo],
     consequent |-> << [type |-> "ExpressionStatement", callee |-> cb,
                        arguments |-> <<line, column>>],
                       [type |-> "BreakStatement"] >>]

generateLoopGuardNoBreak(id, line, column, tmo, cb) ==
    [type |-> "IfStatement",
     test |-> [operator |-> ">",
               left |-> [operator |-> "-",
                         left |-> [type |-> "CallExpression", callee |-> "Date.now"],
                         right |-> id],
               right |-> tmo],
     consequent |-> << [type |-> "ExpressionStatement", callee |-> cb,
                        arguments |-> <<line, column>>] >>]

\* line 113: generateLoopGuard,
\* `if (Date.now() - <id> > <timeout>) { <onAutoBreak>(<line>, <column>); break }`
generateLoopGuard(id, line, column, tmo, cb) ==
    [type |-> "IfStatement",
     test |-> [operator |-> ">",
               left |-> [operator |-> "-",
                         left |-> [type |-> "CallExpression", callee |-> "Date.now"],
                         right |-> id],
               right |-> tmo],
     consequent |-> << [type |-> "ExpressionStatement", callee |-> cb,
                        arguments |-> <<line, column>>],
                       [type |-> "BreakStatement"] >>]

\* line 40: { line: 0, column: 0, ...loop.node.loc?.start }.  node.loc is <<>> when
\* the node has no location, else <<start>>, start a record of the coordinates it has.
StartOf(l) == IF node[l].loc = <<>> THEN <<>> ELSE node[l].loc[1]

\* Variant of Position: a missing line taken as the first line.
PositionFromOne(l) ==
    LET start == StartOf(l)
    IN  [line   |-> IF "line" \in DOMAIN start THEN start.line ELSE 1,
         column |-> IF "column" \in DOMAIN start THEN start.column ELSE 0]

Position(l) ==
    LET start == StartOf(l)
    IN  [line   |-> IF "line" \in DOMAIN start THEN start.line ELSE 0,
         column |-> IF "column" \in DOMAIN start THEN start.column ELSE 0]

\* The names the program itself uses that look like the plugin's
\* (scope.hasBinding / hasGlobal / hasReference in generateUid).
UserNames == {node[i].writes : i \in {j \in DOMAIN node : ~IsLoop(j)}} \ {0}

\* Variant of generateUidIdentifier: the bare name, whatever is taken.
generateUidIdentifierFixed == CHOOSE k \in {1} : TRUE

\* line 41: loop.scope.generateUidIdentifier('auto_break_start').  Name k stands for
\* _auto_break_start (k = 1) and _auto_break_start<k> (k > 1): the first name that the
\* program does not use and that was not minted before.
generateUidIdentifier ==
    LET taken == UserNames \cup uids
    IN  CHOOSE k \in 1..(Cardinality(taken) + 1) :
            k \notin taken /\ \A j \in 1..(k - 1) : j \in taken

(***************************************************************************)
(* The tree operations of the host (NodePath), as breakAfter uses them     *)
(***************************************************************************)
InsertAt(list, k, s) == SubSeq(list, 1, k - 1) \o <<s>> \o SubSeq(list, k, Len(list))

IndexOf(list, s) == CHOOSE k \in 1..Len(list) : list[k] = s
Holds(list, s) == \E k \in 1..Len(list) : list[k] = s

\* The list that holds loop l: 0 for Program.body, else the loop whose body holds it.
ContainerOf(l) ==
    IF Holds(prog, Ref(l)) THEN 0
    ELSE CHOOSE m \in Loops : Holds(body[m].stmts, Ref(l))

ListOf(c) == IF c = 0 THEN prog ELSE body[c].stmts

\* line 43: loop.insertBefore(decl).  In a statement list the declaration becomes the
\* loop's previous sibling; a loop that is the bare body of another statement is first
\* wrapped in a block, which then holds the declaration and the loop.
insertBeforeProg(l, decl) ==
    IF ContainerOf(l) = 0 THEN InsertAt(prog, IndexOf(prog, Ref(l)), decl) ELSE prog

insertBeforeBody(l, decl) ==
    LET c == ContainerOf(l)
    IN  IF c = 0 THEN body
        ELSE [body EXCEPT ![c] =
                [block |-> TRUE,
                 stmts |-> InsertAt(body[c].stmts, IndexOf(body[c].stmts, Ref(l)), decl)]]

\* Variants of guardBody: the guard pushed instead of unshifted; the bare body lost.
guardBodyPushed(b, loopGuard) ==
    [block |-> TRUE, stmts |-> b.stmts \o <<loopGuard>>]

guardBodyLosesBare(b, loopGuard) ==
    IF ~b.block
    THEN [block |-> TRUE, stmts |-> <<loopGuard>>]
    ELSE [block |-> TRUE, stmts |-> <<loopGuard>> \o b.stmts]

\* lines 48-52: a bare body is replaced by the block { guard; body }, a block body
\* gets the guard unshifted.
guardBody(b, loopGuard) ==
    IF ~b.block
    THEN [block |-> TRUE, stmts |-> <<loopGuard, b.stmts[1]>>]
    ELSE [block |-> TRUE, stmts |-> <<loopGuard>> \o b.stmts]

\* Variant of breakAfter: the declaration unshifted into the body, before the guard.
breakAfterTimerInBody(l) ==
    LET pos == Position(l)
        id == generateUidIdentifier
        loopGuard == generateLoopGuard(id, pos.line, pos.column, timeout, onAutoBreak)
    IN  /\ uids' = uids \cup {id}
        /\ prog' = prog
        /\ body' = [body EXCEPT ![l] =
                      [block |-> TRUE,
                       stmts |-> <<generateInitialization(id)>>
                                 \o guardBody(body[l], loopGuard).stmts]]

\* lines 38-53: breakAfter(loop)
breakAfter(l) ==
    LET pos == Position(l)
        id == generateUidIdentifier
        loopGuard == generateLoopGuard(id, pos.line, pos.column, timeout, onAutoBreak)
        withDecl == insertBeforeBody(l, generateInitialization(id))
    IN  /\ uids' = uids \cup {id}
        /\ prog' = insertBeforeProg(l, generateInitialization(id))
        /\ body' = [withDecl EXCEPT ![l] = guardBody(withDecl[l], loopGuard)]

(***************************************************************************)
(* The traversal: every loop once, outer before inner, in source order     *)
(***************************************************************************)
RECURSIVE LoopsIn(_)
LoopsIn(list) ==
    IF list = <<>> THEN <<>>
    ELSE LET s == Head(list)
         IN  (IF IsLoopRef(s) THEN <<s.n>> \o LoopsIn(body[s.n].stmts) ELSE <<>>)
             \o LoopsIn(Tail(list))

Unvisited == SelectSeq(LoopsIn(prog), LAMBDA l : l \notin visited)

PassDone == Loops \subseteq visited

Visit(l, type) ==
    /\ ~PassDone
    /\ l = Head(Unvisited)
    /\ node[l].type = type
    /\ breakAfter(l)
    /\ visited' = visited \cup {l}
    /\ UNCHANGED <<node, optVars, runVars>>

\* lines 32-34: the visitor
ForStatement == \E l \in Loops : Visit(l, "ForStatement")
WhileStatement == \E l \in Loops : Visit(l, "WhileStatement")
DoWhileStatement == \E l \in Loops : Visit(l, "DoWhileStatement")

(***************************************************************************)
(* The execution of the program.  A frame [list, at] is a position in a    *)
(* statement list (0: Program.body, l: the body of loop l); pc holds the   *)
(* frames of the lists control is in, the innermost last.  A timer is kept *)
(* as the difference the guard reads, Date.now() - <name>, which grows     *)
(* with the clock; Unset stands for a variable never assigned (undefined), *)
(* and a difference beyond Cap is kept as Cap.                             *)
(***************************************************************************)
Unset == -1
Cap == timeout + 1
Names == 1..MaxNodes

Top == pc[Len(pc)]
Below == SubSeq(pc, 1, Len(pc) - 1)
AtEnd(f) == f.at > Len(ListOf(f.list))
Cur == ListOf(Top.list)[Top.at]
Running == PassDone /\ ~(Len(pc) = 1 /\ AtEnd(Top))
InLoop(l) == \E k \in 1..Len(pc) : pc[k].list = l
After(f) == [f EXCEPT !.at = @ + 1]

\* The loop control has arrived at when it stands at p, 0 for none.
ArrivedAt(p) ==
    LET f == p[Len(p)]
    IN  IF ~AtEnd(f) /\ IsLoopRef(ListOf(f.list)[f.at]) THEN ListOf(f.list)[f.at].n ELSE 0

\* Control moves to p; the history of a loop it arrives at starts afresh.
Goto(p, nowFired, nowUnwinding) ==
    LET l == ArrivedAt(p)
    IN  /\ pc' = p
        /\ sinceEntry' = [m \in DOMAIN sinceEntry |->
                            IF m = l \/ \A k \in 1..Len(p) : p[k].list # m
                            THEN 0 ELSE sinceEntry[m]]
        /\ fired' = IF l # 0 THEN [nowFired EXCEPT ![l] = 0] ELSE nowFired
        /\ unwinding' = nowUnwinding \ {l}

\* Variant of Leave: out of the enclosing loop as well.
LeaveOuter ==
    IF Len(pc) > 2
    THEN SubSeq(pc, 1, Len(pc) - 3) \o <<After(pc[Len(pc) - 2])>>
    ELSE SubSeq(pc, 1, Len(pc) - 2) \o <<After(pc[Len(pc) - 1])>>

\* The statement after the current one.
Advance == Below \o <<After(Top)>>
\* Out of the innermost loop: the statement after that loop.
Leave == SubSeq(pc, 1, Len(pc) - 2) \o <<After(pc[Len(pc) - 1])>>
\* Into the body of loop l.
Into(l) == pc \o <<[list |-> l, at |-> 1]>>
\* The body of the innermost loop again.
Again == Below \o <<[list |-> Top.list, at |-> 1]>>

\* The values a loop's test can take: a literal true never becomes false, any other
\* condition is the program's business.
TestValues(l) == IF node[l].test = "true" THEN {TRUE} ELSE BOOLEAN

NoEval == [loop |-> 0, elapsed |-> Unset, entered |-> 0, called |-> FALSE,
           exited |-> FALSE, afterInner |-> FALSE, arguments |-> <<>>]
NoExit == [loop |-> 0, by |-> "", fired |-> 0]

\* An ordinary statement of the program; it may assign 0 to a variable that has the
\* shape of the plugin's names, and Date.now() - 0 is beyond any timeout.
ExecStatement ==
    /\ Running /\ ~AtEnd(Top)
    /\ Cur.type = "Node" /\ ~IsLoop(Cur.n)
    /\ since' = IF node[Cur.n].writes # 0
                THEN [since EXCEPT ![node[Cur.n].writes] = Cap] ELSE since
    /\ Goto(Advance, fired, unwinding)
    /\ lastEval' = NoEval /\ lastExit' = NoExit
    /\ UNCHANGED <<node, treeVars, optVars, passVars>>

\* var <id> = Date.now()
ExecDeclaration ==
    /\ Running /\ ~AtEnd(Top)
    /\ Cur.type = "VariableDeclaration"
    /\ since' = [since EXCEPT ![Cur.id] = 0]
    /\ Goto(Advance, fired, unwinding)
    /\ lastEval' = NoEval /\ lastExit' = NoExit
    /\ UNCHANGED <<node, treeVars, optVars, passVars>>

\* Date.now() - <id> <operator> <timeout>; an undefined <id> makes the difference NaN,
\* which compares false.
EvalTest(test) ==
    LET elapsed == since[test.left.right]
    IN  /\ elapsed # Unset
        /\ IF test.operator = ">" THEN elapsed > test.right ELSE elapsed >= test.right

HasBreak(consequent) ==
    \E k \in 1..Len(consequent) : consequent[k].type = "BreakStatement"
CallsIn(consequent) ==
    SelectSeq(consequent, LAMBDA s : s.type = "ExpressionStatement")

\* A loop that is left keeps no history.
Forget(f, l) == [f EXCEPT ![l] = 0]

\* if (<test>) { <callback>(<line>, <column>); break }
ExecGuard ==
    /\ Running /\ ~AtEnd(Top)
    /\ Cur.type = "IfStatement"
    /\ LET l == Top.list
           calls == CallsIn(Cur.consequent)
           enclosing == {pc[k].list : k \in 1..(Len(pc) - 1)} \ {0}
           nowFired == [fired EXCEPT ![l] = IF @ + Len(calls) > 2 THEN 2
                                            ELSE @ + Len(calls)]
           seen == [loop |-> l,
                    elapsed |-> since[Cur.test.left.right],
                    entered |-> sinceEntry[l],
                    afterInner |-> l \in unwinding]
       IN  IF EvalTest(Cur.test)
           THEN IF HasBreak(Cur.consequent)
                THEN /\ Goto(Leave, Forget(nowFired, l), unwinding \cup enclosing)
                     /\ lastExit' = [loop |-> l, by |-> "break", fired |-> nowFired[l]]
                     /\ lastEval' = seen @@ [called |-> calls # <<>>, exited |-> TRUE,
                                             arguments |-> calls[Len(calls)].arguments]
                ELSE /\ Goto(Advance, nowFired, unwinding)
                     /\ lastExit' = NoExit
                     /\ lastEval' = seen @@ [called |-> calls # <<>>, exited |-> FALSE,
                                             arguments |-> calls[Len(calls)].arguments]
           ELSE /\ Goto(Advance, fired, unwinding)
                /\ lastExit' = NoExit
                /\ lastEval' = seen @@ [called |-> FALSE, exited |-> FALSE,
                                        arguments |-> <<>>]
    /\ UNCHANGED <<node, treeVars, optVars, passVars, since>>

\* Control is at a loop: a do-while runs its body first, a for or a while its test.
EnterLoop ==
    /\ Running /\ ~AtEnd(Top)
    /\ IsLoopRef(Cur)
    /\ \/ /\ node[Cur.n].type = "DoWhileStatement" \/ TRUE \in TestValues(Cur.n)
          /\ Goto(Into(Cur.n), fired, unwinding)
       \/ /\ node[Cur.n].type # "DoWhileStatement" /\ FALSE \in TestValues(Cur.n)
          /\ Goto(Advance, fired, unwinding)
    /\ lastEval' = NoEval /\ lastExit' = NoExit
    /\ UNCHANGED <<node, treeVars, optVars, passVars, since>>

\* Control is at the end of a loop's body: (the update of a for, then) the test.
EndOfBody ==
    /\ Running /\ AtEnd(Top) /\ Top.list # 0
    /\ \E b \in TestValues(Top.list) :
          IF b THEN /\ Goto(Again, fired, unwinding)
                    /\ lastExit' = NoExit
          ELSE /\ Goto(Leave, Forget(fired, Top.list), unwinding)
               /\ lastExit' = [loop |-> Top.list, by |-> "test", fired |-> fired[Top.list]]
    /\ lastEval' = NoEval
    /\ UNCHANGED <<node, treeVars, optVars, passVars, since>>

\* The clock advances by one: every difference Date.now() - <name> grows.
Older(age) == IF age = Unset \/ age >= Cap THEN age ELSE age + 1

Tick ==
    /\ Running
    /\ since' = [k \in DOMAIN since |-> Older(since[k])]
    /\ sinceEntry' = [l \in DOMAIN sinceEntry |->
                        IF InLoop(l) \/ ArrivedAt(pc) = l THEN Older(sinceEntry[l])
                        ELSE sinceEntry[l]]
    /\ since' # since
    /\ lastEval' = NoEval /\ lastExit' = NoExit
    /\ UNCHANGED <<node, treeVars, optVars, passVars, pc, fired, unwinding>>

(***************************************************************************)
(* The input programs: every forest of at most MaxNodes statements,        *)
(* numbered in source order.  Statement i starts at line i, column 2 * i.  *)
(***************************************************************************)
RECURSIVE Ancestry(_, _)
Ancestry(par, j) == IF j = 0 THEN {} ELSE {j} \cup Ancestry(par, par[j])

\* Source order: the parent of a statement is on the path to the statement before it.
PreOrdered(n, par) ==
    /\ \A i \in 1..n : par[i] < i
    /\ \A i \in 2..n : par[i] \in {0} \cup Ancestry(par, i - 1)

Kids(n, par, p) == SelectSeq([i \in 1..n |-> i], LAMBDA i : par[i] = p)
RefsOf(list) == [k \in 1..Len(list) |-> Ref(list[k])]

LocOf(i, mode) ==
    IF mode = "none" THEN <<>>
    ELSE IF mode = "line" THEN << [line |-> i] >>
    ELSE IF mode = "column" THEN << [column |-> 2 * i] >>
    ELSE << [line |-> i, column |-> 2 * i] >>

NodeOf(i, shape) ==
    IF shape.type \in LoopTypes
    THEN [type |-> shape.type, test |-> shape.test, loc |-> LocOf(i, shape.loc)]
    ELSE [type |-> shape.type, writes |-> shape.writes]

LoopShapes(tests, locs) == [type : LoopTypes, test : tests, loc : locs]
StmtShapes(writes) == [type : {"ExpressionStatement"}, writes : writes]

InitProgram(shapes) ==
    \E n \in 1..MaxNodes :
    \E par \in [1..n -> 0..(n - 1)] :
        /\ PreOrdered(n, par)
        /\ \E shape \in [1..n -> shapes] :
            /\ \A i \in 1..n : par[i] # 0 => shape[par[i]].type \in LoopTypes
            /\ \E blk \in [1..n -> BOOLEAN] :
                \* a bare body is one statement; a loop is not the body of a statement
                /\ \A i \in 1..n :
                      blk[i] = FALSE =>
                          /\ shape[i].type \in LoopTypes
                          /\ Len(Kids(n, par, i)) = 1
                /\ node = [i \in 1..n |-> NodeOf(i, shape[i])]
                /\ prog = RefsOf(Kids(n, par, 0))
                /\ body = [l \in {i \in 1..n : shape[i].type \in LoopTypes} |->
                             [block |-> blk[l], stmts |-> RefsOf(Kids(n, par, l))]]
                /\ sinceEntry = [l \in {i \in 1..n : shape[i].type \in LoopTypes} |-> 0]
                /\ fired = [l \in {i \in 1..n : shape[i].type \in LoopTypes} |-> 0]

InitRest ==
    /\ onBreak = Callable(<<"(", "line, column", ")", "=>", "{}">>)
    /\ onAutoBreak = transformOnBreak(onBreak).value
    /\ thrown = ""
    /\ visited = {}
    /\ uids = {}
    /\ pc = << [list |-> 0, at |-> 1] >>
    /\ since = [k \in Names |-> Unset]
    /\ unwinding = {}
    /\ lastEval = NoEval
    /\ lastExit = NoExit

Run == ExecStatement \/ ExecDeclaration \/ ExecGuard \/ EnterLoop \/ EndOfBody

\* The traversal alone, over programs with every kind of location.
InitPass ==
    /\ InitProgram(LoopShapes({"cond"}, {"both"})
                   \cup [type : {"WhileStatement"}, test : {"cond"},
                        loc : {"none", "line", "column"}]
                   \cup StmtShapes({0, 1}))
    /\ timeout = MaxTimeout
    /\ InitRest

NextPass ==
    \/ ForStatement
    \/ WhileStatement
    \/ DoWhileStatement

SpecPass == InitPass /\ [][NextPass]_vars

\* The traversal, then the execution of what it produced.
Init ==
    /\ InitProgram(LoopShapes({"cond"}, {"both"}) \cup StmtShapes({1}))
    /\ timeout = MaxTimeout
    /\ InitRest

Next ==
    \/ ForStatement
    \/ WhileStatement
    \/ DoWhileStatement
    \/ ExecStatement
    \/ ExecDeclaration
    \/ ExecGuard
    \/ EnterLoop
    \/ EndOfBody
    \/ Tick

Spec == Init /\ [][Next]_vars

\* The construction of the plugin alone, over the values of onBreak: every message
\* of at most MaxMessage characters, two longer ones, and the kinds of callable.
Messages ==
    UNION {[1..n -> Alphabet] : n \in 0..MaxMessage}
    \cup { <<"a", Quote, "a", Quote, "a">>,
           <<Backslash, Quote, ")", ",", "a", "/", "/">> }

Callables ==
    { <<"(", "line, column", ")", "=>", "{}">>,
      <<"function", "(", "line, column", ")", "{}">>,
      <<"function", "report", "(", "line, column", ")", "{}">>,
      <<"async", "function", "(", "line, column", ")", "{}">>,
      <<"class", "Reporter", "{}">> }

InitOnBreak ==
    /\ onBreak \in {Message(m) : m \in Messages} \cup {Callable(c) : c \in Callables}
                   \cup {noop}
    /\ onAutoBreak = Nothing
    /\ thrown = ""
    /\ timeout = MaxTimeout
    /\ node = <<>> /\ prog = <<>> /\ body = <<>>
    /\ sinceEntry = <<>> /\ fired = <<>>
    /\ visited = {} /\ uids = {}
    /\ pc = << [list |-> 0, at |-> 1] >>
    /\ since = [k \in Names |-> Unset]
    /\ unwinding = {}
    /\ lastEval = NoEval
    /\ lastExit = NoExit

NextOnBreak == Construct

SpecOnBreak == InitOnBreak /\ [][NextOnBreak]_vars

\* The engine keeps executing and the clock keeps advancing; every test is a literal true.
InitLive ==
    /\ InitProgram(LoopShapes({"true"}, {"both"}) \cup StmtShapes({1}))
    /\ timeout = MaxTimeout
    /\ InitRest

SpecLive == InitLive /\ [][Next]_vars /\ WF_vars(Run) /\ WF_vars(Tick)

(***************************************************************************)
(* Properties                                                              *)
(***************************************************************************)
AllLists == <<prog>> \o [k \in 1..Cardinality(Loops) |->
                           body[CHOOSE l \in Loops :
                                   Cardinality({m \in Loops : m < l}) = k - 1].stmts]
Count(list, P(_)) == Len(SelectSeq(list, P))
IsDecl(s) == s.type = "VariableDeclaration"
IsGuard(s) == s.type = "IfStatement"
RECURSIVE Sum(_)
Sum(ns) == IF ns = <<>> THEN 0 ELSE Head(ns) + Sum(Tail(ns))
\* How many statements of the whole tree satisfy P.
CountAll(P(_)) == Sum([k \in 1..Len(AllLists) |-> Count(AllLists[k], P)])

\* The guard of loop l and the timer it reads.
GuardOf(l) == body[l].stmts[CHOOSE k \in 1..Len(body[l].stmts) : IsGuard(body[l].stmts[k])]
TimerOf(l) == GuardOf(l).test.left.right

\* C1: after the pass every loop has exactly one timer declaration, which is the
\* statement just before it in its list, and exactly one guard, which is the first
\* statement of its body and reads that timer.
C1_OneTimerOneGuardFirst ==
    PassDone =>
        /\ CountAll(IsDecl) = Cardinality(Loops)
        /\ CountAll(IsGuard) = Cardinality(Loops)
        /\ \A l \in Loops :
            LET list == ListOf(ContainerOf(l))
                k == IndexOf(list, Ref(l))
                b == body[l]
            IN  /\ Count(list, LAMBDA s : s = Ref(l)) = 1
                /\ k > 1
                /\ IsDecl(list[k - 1])
                /\ b.block
                /\ b.stmts # <<>>
                /\ IsGuard(b.stmts[1])
                /\ Count(b.stmts, IsGuard) = 1
                /\ b.stmts[1].test.left.right = list[k - 1].id
                /\ CountAll(LAMBDA s : IsDecl(s) /\ s.id = list[k - 1].id) = 1

\* C1's case: an inner loop's declaration went into the body of a rewritten outer
\* loop, behind the outer loop's guard.
C1_Witness ==
    /\ PassDone
    /\ \E l \in Loops :
          /\ Len(body[l].stmts) >= 3
          /\ IsGuard(body[l].stmts[1])
          /\ IsDecl(body[l].stmts[2])
          /\ IsLoopRef(body[l].stmts[3])

\* C5: the step that rewrites loop l leaves every node (init, test, update) as it was,
\* makes l's body a block of the guard followed by the statements it had, in order
\* (two statements when the body was bare), adds one statement, just before l, to
\* the list that holds l, and touches no other list.
C5_RewriteFrame ==
    [][\A l \in Loops :
         (l \notin visited /\ l \in visited') =>
            LET c == ContainerOf(l)
                k == IndexOf(ListOf(c), Ref(l))
                after == IF c = 0 THEN prog' ELSE body'[c].stmts
            IN  /\ node' = node
                /\ body'[l].block
                /\ IsGuard(Head(body'[l].stmts))
                /\ Tail(body'[l].stmts) = body[l].stmts
                /\ ~body[l].block => Len(body'[l].stmts) = 2
                /\ Len(after) = Len(ListOf(c)) + 1
                /\ IsDecl(after[k])
                /\ SubSeq(after, 1, k - 1) \o SubSeq(after, k + 1, Len(after)) = ListOf(c)
                /\ c # 0 => prog' = prog
                /\ \A m \in Loops \ {l, c} : body'[m] = body[m]
      ]_vars

\* C5's case: a rewritten loop whose body is the guard and one original statement.
C5_Witness ==
    \E l \in visited :
        /\ Len(body[l].stmts) = 2
        /\ IsGuard(body[l].stmts[1])
        /\ body[l].stmts[2].type = "Node"

\* C6: the callback's arguments in a loop's guard are that loop's own line and
\* column, 0 for a coordinate the loop does not have; and the pass goes on to every
\* loop, whatever its location.
C6_OwnPosition ==
    /\ \A l \in visited :
          LET args == GuardOf(l).consequent[1].arguments
          IN  /\ node[l].loc = <<>> => args = <<0, 0>>
              /\ node[l].loc = << [line |-> l] >> => args = <<l, 0>>
              /\ node[l].loc = << [column |-> 2 * l] >> => args = <<0, 2 * l>>
              /\ node[l].loc = << [line |-> l, column |-> 2 * l] >> => args = <<l, 2 * l>>
    /\ ~PassDone => ENABLED NextPass

\* C6's case: a loop without a location inside a loop with one, both rewritten.
C6_Witness ==
    \E l, m \in visited :
        /\ Holds(body[l].stmts, Ref(m))
        /\ node[l].loc = << [line |-> l, column |-> 2 * l] >>
        /\ node[m].loc = <<>>
        /\ GuardOf(l).consequent[1].arguments = <<l, 2 * l>>
        /\ GuardOf(m).consequent[1].arguments = <<0, 0>>

\* The loops control is in, the outermost first.
Active == SelectSeq([k \in 1..Len(pc) |-> pc[k].list], LAMBDA l : l # 0)

\* C2: a guard evaluation calls the callback and leaves the loop exactly when the
\* elapsed time is greater than the timeout; at elapsed = timeout it does neither.
C2_StrictlyGreater ==
    lastEval.loop # 0 =>
        /\ lastEval.called <=> lastEval.elapsed > timeout
        /\ lastEval.exited <=> lastEval.elapsed > timeout

\* C2's case: a guard evaluated at elapsed = timeout, and the loop goes on.
C2_Witness ==
    /\ lastEval.loop # 0
    /\ lastEval.elapsed = timeout
    /\ ~lastEval.called
    /\ InLoop(lastEval.loop)

\* C3: the step in which a guard fires takes control out of that loop only: to the
\* statement after the loop, in the list that holds the loop, with every enclosing
\* loop still active where it was; no timer is touched.
C3_ExitsOnlyItsLoop ==
    [][lastEval'.called =>
          LET n == Len(pc)
              l == pc[n].list
          IN  /\ l # 0
              /\ IsGuard(ListOf(l)[pc[n].at])
              /\ Len(pc') = n - 1
              /\ \A k \in 1..(n - 2) : pc'[k] = pc[k]
              /\ ListOf(pc[n - 1].list)[pc[n - 1].at] = Ref(l)
              /\ pc'[n - 1] = [list |-> pc[n - 1].list, at |-> pc[n - 1].at + 1]
              /\ since' = since
              /\ <<node', prog', body'>> = <<node, prog, body>>
      ]_vars

\* C3's case: an inner loop's guard has just fired and control is at the statement
\* that follows the inner loop, inside the enclosing loop.
C3_Witness ==
    /\ lastEval.called
    /\ Len(pc) >= 2
    /\ ~AtEnd(Top)
    /\ Cur.type = "Node"
    /\ Top.at > 1
    /\ ListOf(Top.list)[Top.at - 1] = Ref(lastEval.loop)

\* C9: while control is in a loop, the difference its guard reads is the time since
\* control last arrived at that loop: the timer was set then, and nothing has set it
\* since (no iteration of the loop, no other loop's declaration, no statement of the
\* program).
C9_TimerIsEntryTime ==
    /\ \A l \in Loops : InLoop(l) => since[TimerOf(l)] = sinceEntry[l]
    /\ lastEval.loop # 0 => lastEval.elapsed = lastEval.entered

\* C9's case: the guard of an inner loop evaluated in a later iteration of its
\* enclosing loop, whose timer is older, in a program that assigns a name of the
\* plugin's shape.
C9_Witness ==
    /\ UserNames # {}
    /\ Len(Active) >= 2
    /\ lastEval.loop = Active[2]
    /\ sinceEntry[Active[1]] > sinceEntry[Active[2]]
    /\ since[TimerOf(Active[1])] > since[TimerOf(Active[2])]

\* C10: an enclosing loop's elapsed time is at least that of every loop running
\* inside it; so when a guard has fired inside a loop, that loop's own guard fires
\* at its next evaluation, with its own position.
C10_NestUnwinds ==
    /\ \A i, j \in 1..Len(Active) :
          i < j => since[TimerOf(Active[i])] >= since[TimerOf(Active[j])]
    /\ (lastEval.loop # 0 /\ lastEval.afterInner) =>
          /\ lastEval.called
          /\ lastEval.exited
          /\ lastEval.arguments = <<lastEval.loop, 2 * lastEval.loop>>

\* C10's case: the guard of a loop fires after a guard fired inside it, and a further
\* enclosing loop is left to unwind.
C10_Witness ==
    /\ lastEval.loop # 0
    /\ lastEval.afterInner
    /\ lastEval.called
    /\ Len(Active) >= 1
    /\ Active[Len(Active)] \in unwinding

\* C4: a loop whose test never becomes false is left all the same (control, once in
\* a loop, comes back out of every loop) once the clock has passed the timeout: by
\* its guard, at the first evaluation that finds the elapsed
\* time greater than the timeout, with exactly one call of the callback.
C4_LoopTerminatesOnce ==
    /\ (Len(pc) > 1) ~> (Len(pc) = 1)
    /\ [](lastExit.loop # 0 => lastExit.by = "break" /\ lastExit.fired = 1)
    /\ [](\A l \in Loops : InLoop(l) => fired[l] = 0)
    /\ []((lastEval.loop # 0 /\ lastEval.elapsed > timeout) => lastEval.exited)
    /\ []((lastEval.loop # 0 /\ lastEval.exited) => lastEval.elapsed > timeout)

\* C4's case: a loop with a literal true test has just been left by its guard, inside
\* an enclosing loop that goes on.
C4_Witness ==
    /\ lastExit.loop # 0
    /\ node[lastExit.loop].test = "true"
    /\ lastExit.by = "break"
    /\ lastExit.fired = 1
    /\ Len(Active) >= 1

Constructed == onAutoBreak # Nothing

\* C7: for every message, the callback transformOnBreak builds is an arrow function
\* that reports exactly the message, character for character.
C7_MessageRoundTrips ==
    (Constructed /\ onBreak.typeof = "string") =>
        /\ thrown = ""
        /\ onAutoBreak.type = "ArrowFunctionExpression"
        /\ onAutoBreak.body.callee = "console.error"
        /\ onAutoBreak.body.arguments = <<onBreak.text>>

\* C8: transformOnBreak returns a callback only when the parsed statement is an
\* expression statement wrapping an arrow function (returned as it is) or a function
\* declaration (returned as a function expression of the same id, parameters and
\* body); for every other statement, or none, the construction fails with the
\* invalid-onBreak-action error and no plugin is made.
C8_OnlyTwoShapes ==
    Constructed =>
        LET stmt == Transform(onBreak)
            arrow == /\ stmt.type = "ExpressionStatement"
                     /\ stmt.expression.type = "ArrowFunctionExpression"
            declaration == stmt.type = "FunctionDeclaration"
        IN  /\ thrown = "" =>
                \/ arrow /\ onAutoBreak = stmt.expression
                \/ /\ declaration
                   /\ onAutoBreak = [type |-> "FunctionExpression", id |-> stmt.id,
                                     params |-> stmt.params, body |-> stmt.body]
            /\ (stmt.type # "SyntaxError" /\ ~arrow /\ ~declaration) =>
                /\ thrown = "babel-babel-auto-break: invalid onBreak action"
                /\ onAutoBreak.type = "no plugin"

====
